---- MODULE Spec2Model ----
(***************************************************************************)
(* CoverletterMe: the cached-input acquisition workflow of                 *)
(* helperfunctions.py and the run of CoverletterMe.main.                   *)
(*                                                                         *)
(* Strings are sequences of one-character strings, so that the file name   *)
(* of a record is computed from the literal the code passes                *)
(* (filename.replace(" ", "_") + ".pkl") and the text of a document is     *)
(* computed from its paragraphs ("\n".join).  A Python value is a record   *)
(* [type, s]: None, a str, or a bool.                                      *)
(***************************************************************************)
EXTENDS Integers, Sequences, FiniteSets, TLC

VARIABLES
    fs,                     \* working directory: path -> pickled value
    caseSensitive,          \* whether the file system distinguishes case
    destination,            \* content of your_new_cover_letter.txt
    pc,                     \* position of main / get_prompt
    run,                    \* number of the current run
    api_key,                \* openai.api_key
    resume,                 \* locals of get_prompt
    reference_coverletter,
    description,
    remarks,
    prompt,                 \* local of main
    response,               \* local of main
    log,                    \* steps of main taken in this run
    last                    \* the call made by the last step

vars == <<fs, caseSensitive, destination, pc, run, api_key, resume,
          reference_coverletter, description, remarks, prompt, response,
          log, last>>

----------------------------------------------------------------------------
(* Bounds *)

NumTexts == 1
MaxRuns == 2

----------------------------------------------------------------------------
(* Python values *)

None == [type |-> "NoneType", s |-> <<>>]
Str(s) == [type |-> "str", s |-> s]
Bool(b) == [type |-> "bool", s |-> IF b THEN <<"1">> ELSE <<>>]

\* bool(v) for the values the program tests: None and "" are false
Truthy(v) == v.type # "NoneType" /\ v.s # <<>>

Letters == <<"a", "b", "c", "d">>
Text(i) == <<Letters[((i - 1) % Len(Letters)) + 1]>>
Texts == {Text(i) : i \in 1..NumTexts}

\* what the user can answer to askstring: Cancel, OK on nothing, OK on text
AskStringAnswers == {None, Str(<<>>)} \cup {Str(t) : t \in Texts}

\* what the user can answer to askopenfilename: Cancel or a path
SomePath == <<"f", ".", "d", "o", "c", "x">>
FilePathAnswers == {<<>>, SomePath}

\* the file behind the chosen path: unreadable, or its paragraphs; no
\* file is opened when none is chosen
NoDocument == [ok |-> FALSE, paragraphs |-> <<>>]
Documents(file_path) ==
    IF file_path = <<>>
    THEN {NoDocument}
    ELSE {[ok |-> FALSE, paragraphs |-> <<>>],
          [ok |-> TRUE, paragraphs |-> <<>>],
          [ok |-> TRUE, paragraphs |-> << <<"a">>, <<"b">> >>]}

\* what the generation service can do: fail, or answer
Completions == {[ok |-> FALSE, content |-> <<>>], [ok |-> TRUE, content |-> <<"r">>]}

----------------------------------------------------------------------------
(* str methods *)

\* s.replace(old, new) for one-character old and new
replace(s, old, new) == [i \in DOMAIN s |-> IF s[i] = old THEN new ELSE s[i]]

RECURSIVE join(_, _)
\* sep.join(parts)
join(sep, parts) ==
    IF parts = <<>> THEN <<>>
    ELSE IF Len(parts) = 1 THEN parts[1]
    ELSE parts[1] \o sep \o join(sep, Tail(parts))

\* f"{v}": str(None) is the text None
format(v) == IF v.type = "NoneType" THEN <<"N", "o", "n", "e">> ELSE v.s

----------------------------------------------------------------------------
(* The literals of the source *)

s_Resume == <<"R", "e", "s", "u", "m", "e">>
s_Cover_Letter == <<"C", "o", "v", "e", "r", " ", "L", "e", "t", "t", "e", "r">>
s_Cover_letter == <<"C", "o", "v", "e", "r", " ", "l", "e", "t", "t", "e", "r">>
s_Job_description == <<"J", "o", "b", " ", "d", "e", "s", "c", "r", "i", "p", "t", "i", "o", "n">>
s_Additional_prompt == <<"A", "d", "d", "i", "t", "i", "o", "n", "a", "l", " ", "p", "r", "o", "m", "p", "t">>
s_API_key == <<"A", "P", "I", "_", "k", "e", "y">>
s_pkl == <<".", "p", "k", "l">>
s_API_key_pkl == <<"A", "P", "I", "_", "k", "e", "y", ".", "p", "k", "l">>

\* f"""{filename.replace(" ", "_")}.pkl"""
pkl_path(filename) == replace(filename, " ", "_") \o s_pkl

----------------------------------------------------------------------------
(* The working directory *)

UpperCase == <<"A", "C", "I", "J", "L", "P", "R">>
LowerCase == <<"a", "c", "i", "j", "l", "p", "r">>

lower(c) ==
    IF \E i \in DOMAIN UpperCase : UpperCase[i] = c
    THEN LowerCase[CHOOSE i \in DOMAIN UpperCase : UpperCase[i] = c]
    ELSE c

\* two names are one name to a file system that ignores case
samefile(f, g) ==
    /\ Len(f) = Len(g)
    /\ \A i \in DOMAIN f : f[i] = g[i] \/ lower(f[i]) = lower(g[i])

\* the directory entries a path names
entries(dir, path) ==
    {f \in DOMAIN dir : IF caseSensitive THEN f = path ELSE samefile(f, path)}

exists(dir, path) == entries(dir, path) # {}

\* pickle.load(open(path, "rb")) of an existing file
load(dir, path) == dir[CHOOSE f \in entries(dir, path) : TRUE]

\* with open(path, "wb") as f: pickle.dump(value, f)
dump(dir, path, value) ==
    IF exists(dir, path)
    THEN [dir EXCEPT ![CHOOSE f \in entries(dir, path) : TRUE] = value]
    ELSE (path :> value) @@ dir

----------------------------------------------------------------------------
(* Calls: a call returns the directory it leaves, its value, whether it    *)
(* raised, and the sequence of what it did to the user and the directory.  *)

Event(op, arg, ans) == [op |-> op, arg |-> arg, ans |-> ans]

Return(dir, ret, ev) == [fs |-> dir, ret |-> ret, raised |-> FALSE, ev |-> ev]
Raise(dir, ev) == [fs |-> dir, ret |-> None, raised |-> TRUE, ev |-> ev]

get_cached_file(dir, filename) ==
    LET path == pkl_path(filename) IN
    IF exists(dir, path)
    THEN Return(dir, load(dir, path), <<Event("load", path, load(dir, path))>>)
    ELSE Return(dir, None, <<Event("FileNotFoundError", path, None)>>)

\* select_docx_file with the failure of docx.Document caught: the run goes on
\* with what is cached
select_docx_file_caught(dir, filename, file_path, doc) ==
    LET asked == <<Event("showinfo", filename, None),
                   Event("askopenfilename", filename, Str(file_path))>>
        cached == get_cached_file(dir, filename)
    IN
    IF file_path # <<>>
    THEN IF doc.ok
         THEN LET docx_string == Str(join(<<"\n">>, doc.paragraphs))
                  path == pkl_path(filename)
              IN Return(dump(dir, path, docx_string), docx_string,
                        asked \o <<Event("Document", file_path, docx_string),
                                   Event("dump", path, docx_string)>>)
         ELSE Return(dir, cached.ret,
                     asked \o <<Event("Document", file_path, None)>> \o cached.ev)
    ELSE Return(dir, cached.ret,
                asked \o <<Event("showwarning", filename, None)>> \o cached.ev)

select_docx_file(dir, filename, file_path, doc) ==
    LET asked == <<Event("showinfo", filename, None),
                   Event("askopenfilename", filename, Str(file_path))>>
    IN
    IF file_path # <<>>
    THEN IF doc.ok
         THEN LET docx_string == Str(join(<<"\n">>, doc.paragraphs))
                  path == pkl_path(filename)
              IN Return(dump(dir, path, docx_string), docx_string,
                        asked \o <<Event("Document", file_path, docx_string),
                                   Event("dump", path, docx_string)>>)
         ELSE Raise(dir, asked \o <<Event("Document", file_path, None)>>)
    ELSE LET cached == get_cached_file(dir, filename)
         IN Return(dir, cached.ret,
                   asked \o <<Event("showwarning", filename, None)>> \o cached.ev)

enter_docx_file(dir, filename, text) ==
    LET asked == <<Event("askstring", filename, text)>> IN
    IF Truthy(text)
    THEN LET path == pkl_path(filename)
         IN Return(dump(dir, path, text), text,
                   asked \o <<Event("dump", path, text)>>)
    ELSE LET cached == get_cached_file(dir, filename)
         IN Return(dir, cached.ret,
                   asked \o <<Event("showwarning", filename, None)>> \o cached.ev)

\* get_api_key that asks for the key in every run
get_api_key_every_run(dir, text) ==
    LET cached == get_cached_file(dir, s_API_key) IN
    Return(dump(dir, s_API_key_pkl, text), text,
           cached.ev \o <<Event("askstring", s_API_key, text),
                          Event("dump", s_API_key_pkl, text)>>)

get_api_key(dir, text) ==
    LET cached == get_cached_file(dir, s_API_key) IN
    IF cached.ret = None
    THEN Return(dump(dir, s_API_key_pkl, text), text,
                cached.ev \o <<Event("askstring", s_API_key, text),
                               Event("dump", s_API_key_pkl, text)>>)
    ELSE Return(dir, cached.ret, cached.ev)

\* get_resume testing "if resume:" in place of "if resume is not None:"
get_resume_if_truthy(dir, result, file_path, doc) ==
    LET cached == get_cached_file(dir, s_Resume)
        asked == Event("askyesno", s_Resume, Bool(result))
        new == select_docx_file(dir, s_Resume, file_path, doc)
    IN
    IF Truthy(cached.ret)
    THEN IF ~result
         THEN [new EXCEPT !.ev = cached.ev \o <<asked>> \o @]
         ELSE Return(dir, cached.ret, cached.ev \o <<asked>>)
    ELSE [new EXCEPT !.ev = cached.ev \o @]

get_resume(dir, result, file_path, doc) ==
    LET cached == get_cached_file(dir, s_Resume)
        asked == Event("askyesno", s_Resume, Bool(result))
        new == select_docx_file(dir, s_Resume, file_path, doc)
    IN
    IF cached.ret # None
    THEN IF ~result
         THEN [new EXCEPT !.ev = cached.ev \o <<asked>> \o @]
         ELSE Return(dir, cached.ret, cached.ev \o <<asked>>)
    ELSE [new EXCEPT !.ev = cached.ev \o @]

get_coverletter(dir, result, file_path, doc) ==
    LET cached == get_cached_file(dir, s_Cover_Letter)
        asked == Event("askyesno", s_Cover_Letter, Bool(result))
        new == select_docx_file(dir, s_Cover_letter, file_path, doc)
    IN
    IF cached.ret # None
    THEN IF ~result
         THEN [new EXCEPT !.ev = cached.ev \o <<asked>> \o @]
         ELSE Return(dir, cached.ret, cached.ev \o <<asked>>)
    ELSE [new EXCEPT !.ev = cached.ev \o @]

\* get_job_description entering the text under the name of the remarks
get_job_description_as_remarks(dir, result, text) ==
    LET cached == get_cached_file(dir, s_Job_description)
        asked == Event("askyesno", s_Job_description, Bool(result))
        new == enter_docx_file(dir, s_Additional_prompt, text)
    IN
    IF cached.ret # None
    THEN IF ~result
         THEN [new EXCEPT !.ev = cached.ev \o <<asked>> \o @]
         ELSE Return(dir, cached.ret, cached.ev \o <<asked>>)
    ELSE [new EXCEPT !.ev = cached.ev \o @]

get_job_description(dir, result, text) ==
    LET cached == get_cached_file(dir, s_Job_description)
        asked == Event("askyesno", s_Job_description, Bool(result))
        new == enter_docx_file(dir, s_Job_description, text)
    IN
    IF cached.ret # None
    THEN IF ~result
         THEN [new EXCEPT !.ev = cached.ev \o <<asked>> \o @]
         ELSE Return(dir, cached.ret, cached.ev \o <<asked>>)
    ELSE [new EXCEPT !.ev = cached.ev \o @]

\* get_remarks taking yes as the wish to change the remarks, as its question
\* is worded
get_remarks_yes_changes(dir, result, text) ==
    LET cached == get_cached_file(dir, s_Additional_prompt)
        asked == Event("askyesno", s_Additional_prompt, Bool(result))
        new == enter_docx_file(dir, s_Additional_prompt, text)
    IN
    IF cached.ret # None
    THEN IF result
         THEN [new EXCEPT !.ev = cached.ev \o <<asked>> \o @]
         ELSE Return(dir, cached.ret, cached.ev \o <<asked>>)
    ELSE [new EXCEPT !.ev = cached.ev \o @]

get_remarks(dir, result, text) ==
    LET cached == get_cached_file(dir, s_Additional_prompt)
        asked == Event("askyesno", s_Additional_prompt, Bool(result))
        new == enter_docx_file(dir, s_Additional_prompt, text)
    IN
    IF cached.ret # None
    THEN IF ~result
         THEN [new EXCEPT !.ev = cached.ev \o <<asked>> \o @]
         ELSE Return(dir, cached.ret, cached.ev \o <<asked>>)
    ELSE [new EXCEPT !.ev = cached.ev \o @]

\* get_prompt passing the values on as they are, None included
compose_unformatted(description_, resume_, reference_coverletter_, remarks_) ==
    [description |-> description_,
     resume |-> resume_,
     reference_coverletter |-> reference_coverletter_,
     remarks |-> remarks_]

\* the f-string of get_prompt: the four values between the fixed texts
compose(description_, resume_, reference_coverletter_, remarks_) ==
    [description |-> Str(format(description_)),
     resume |-> Str(format(resume_)),
     reference_coverletter |-> Str(format(reference_coverletter_)),
     remarks |-> Str(format(remarks_))]

----------------------------------------------------------------------------
(* The run of main *)

NoCall == [fn |-> "", before |-> << >>, fs |-> << >>, ret |-> None,
           raised |-> FALSE, ev |-> << >>]

Call(fn, before, r) == [fn |-> fn, before |-> before, fs |-> r.fs, ret |-> r.ret,
                        raised |-> r.raised, ev |-> r.ev]

\* the records the program opens: the paths of its dump calls and of the
\* lookups of get_cached_file.  The working directory a run finds holds any
\* of them; a file system that ignores case holds one entry for one name
KnownFiles == {s_API_key_pkl, pkl_path(s_API_key), pkl_path(s_Resume),
               pkl_path(s_Cover_Letter), pkl_path(s_Cover_letter),
               pkl_path(s_Job_description), pkl_path(s_Additional_prompt)}

Directories(cs) ==
    UNION {[S -> {Str(<<"a">>)}] :
           S \in {T \in SUBSET KnownFiles :
                    cs \/ \A f, g \in T : samefile(f, g) => f = g}}

Init ==
    /\ caseSensitive \in BOOLEAN
    /\ fs \in Directories(caseSensitive)
    /\ destination = None
    /\ pc = "get_api_key"
    /\ run = 1
    /\ api_key = None
    /\ resume = None
    /\ reference_coverletter = None
    /\ description = None
    /\ remarks = None
    /\ prompt = None
    /\ response = None
    /\ log = << >>
    /\ last = NoCall

\* CoverletterMe.py line 18: openai.api_key = get_api_key()
main_get_api_key ==
    /\ pc = "get_api_key"
    /\ \E text \in AskStringAnswers :
        \E r \in {get_api_key(fs, text)} :
        /\ fs' = r.fs
        /\ api_key' = r.ret
        /\ last' = Call("get_api_key", fs, r)
    /\ pc' = "get_resume"
    /\ log' = Append(log, "get_api_key")
    /\ UNCHANGED <<caseSensitive, destination, run, resume, reference_coverletter,
                   description, remarks, prompt, response>>

\* helperfunctions.py line 248: resume = get_resume()
get_prompt_resume ==
    /\ pc = "get_resume"
    /\ \E result \in BOOLEAN, file_path \in FilePathAnswers :
      \E doc \in Documents(file_path) :
        \E r \in {get_resume(fs, result, file_path, doc)} :
        /\ fs' = r.fs
        /\ resume' = r.ret
        /\ last' = Call("get_resume", fs, r)
        /\ pc' = IF r.raised THEN "aborted" ELSE "get_coverletter"
    /\ log' = Append(log, "get_resume")
    /\ UNCHANGED <<caseSensitive, destination, run, api_key, reference_coverletter,
                   description, remarks, prompt, response>>

\* helperfunctions.py line 249: reference_coverletter = get_coverletter()
get_prompt_coverletter ==
    /\ pc = "get_coverletter"
    /\ \E result \in BOOLEAN, file_path \in FilePathAnswers :
      \E doc \in Documents(file_path) :
        \E r \in {get_coverletter(fs, result, file_path, doc)} :
        /\ fs' = r.fs
        /\ reference_coverletter' = r.ret
        /\ last' = Call("get_coverletter", fs, r)
        /\ pc' = IF r.raised THEN "aborted" ELSE "get_job_description"
    /\ log' = Append(log, "get_coverletter")
    /\ UNCHANGED <<caseSensitive, destination, run, api_key, resume,
                   description, remarks, prompt, response>>

\* helperfunctions.py line 250: description = get_job_description()
get_prompt_job_description ==
    /\ pc = "get_job_description"
    /\ \E result \in BOOLEAN, text \in AskStringAnswers :
        \E r \in {get_job_description(fs, result, text)} :
        /\ fs' = r.fs
        /\ description' = r.ret
        /\ last' = Call("get_job_description", fs, r)
    /\ pc' = "get_remarks"
    /\ log' = Append(log, "get_job_description")
    /\ UNCHANGED <<caseSensitive, destination, run, api_key, resume,
                   reference_coverletter, remarks, prompt, response>>

\* helperfunctions.py line 251: remarks = get_remarks()
get_prompt_remarks ==
    /\ pc = "get_remarks"
    /\ \E result \in BOOLEAN, text \in AskStringAnswers :
        \E r \in {get_remarks(fs, result, text)} :
        /\ fs' = r.fs
        /\ remarks' = r.ret
        /\ last' = Call("get_remarks", fs, r)
    /\ pc' = "compose"
    /\ log' = Append(log, "get_remarks")
    /\ UNCHANGED <<caseSensitive, destination, run, api_key, resume,
                   reference_coverletter, description, prompt, response>>

\* helperfunctions.py lines 252-282, CoverletterMe.py line 21: prompt = get_prompt()
get_prompt_return ==
    /\ pc = "compose"
    /\ prompt' = compose(description, resume, reference_coverletter, remarks)
    /\ pc' = "get_completion"
    /\ log' = Append(log, "compose")
    /\ last' = NoCall
    /\ UNCHANGED <<fs, caseSensitive, destination, run, api_key, resume,
                   reference_coverletter, description, remarks, response>>

\* CoverletterMe.py line 22: response = get_completion(prompt)
main_get_completion ==
    /\ pc = "get_completion"
    /\ \E c \in Completions :
        /\ response' = IF c.ok THEN Str(c.content) ELSE None
        /\ pc' = IF c.ok THEN "write" ELSE "aborted"
        /\ last' = [NoCall EXCEPT !.fn = "get_completion", !.raised = ~c.ok]
    /\ log' = Append(log, "get_completion")
    /\ UNCHANGED <<fs, caseSensitive, destination, run, api_key, resume,
                   reference_coverletter, description, remarks, prompt>>

\* CoverletterMe.py lines 25-26: f.write(response)
main_write ==
    /\ pc = "write"
    /\ destination' = response
    /\ pc' = "showinfo"
    /\ log' = Append(log, "write")
    /\ last' = NoCall
    /\ UNCHANGED <<fs, caseSensitive, run, api_key, resume, reference_coverletter,
                   description, remarks, prompt, response>>

\* CoverletterMe.py line 28: messagebox.showinfo(...)
main_showinfo ==
    /\ pc = "showinfo"
    /\ pc' = "done"
    /\ log' = Append(log, "showinfo")
    /\ last' = NoCall
    /\ UNCHANGED <<fs, caseSensitive, destination, run, api_key, resume,
                   reference_coverletter, description, remarks, prompt, response>>

\* CoverletterMe.py lines 31-32: the program is run again in the same directory
main ==
    /\ pc \in {"done", "aborted"}
    /\ run < MaxRuns
    /\ run' = run + 1
    /\ pc' = "get_api_key"
    /\ api_key' = None
    /\ resume' = None
    /\ reference_coverletter' = None
    /\ description' = None
    /\ remarks' = None
    /\ prompt' = None
    /\ response' = None
    /\ log' = << >>
    /\ last' = NoCall
    /\ UNCHANGED <<fs, caseSensitive, destination>>

Next ==
    \/ main_get_api_key
    \/ get_prompt_resume
    \/ get_prompt_coverletter
    \/ get_prompt_job_description
    \/ get_prompt_remarks
    \/ get_prompt_return
    \/ main_get_completion
    \/ main_write
    \/ main_showinfo
    \/ main

Spec == Init /\ [][Next]_vars

----------------------------------------------------------------------------
(* Vocabulary of the properties *)

ContentCalls == {"get_resume", "get_coverletter", "get_job_description", "get_remarks"}
ResolverCalls == ContentCalls \cup {"get_api_key"}

\* the key of the category a resolver resolves: the name it looks up first
category(fn) ==
    CASE fn = "get_resume" -> s_Resume
      [] fn = "get_coverletter" -> s_Cover_Letter
      [] fn = "get_job_description" -> s_Job_description
      [] fn = "get_remarks" -> s_Additional_prompt
      [] fn = "get_api_key" -> s_API_key

\* the store's get: the value under a category's key, None when absent
get(dir, key) == get_cached_file(dir, key).ret

\* what the resolver found cached when the call started
Cached(call) == get(call.before, category(call.fn))

Events(call, ops) == {i \in DOMAIN call.ev : call.ev[i].op \in ops}

ReuseQuestions(call) == Events(call, {"askyesno"})
NewInputPrompts(call) == Events(call, {"askopenfilename", "askstring"})
Writes(call) == Events(call, {"dump"})

AnsweredYes(call) == \E i \in ReuseQuestions(call) : call.ev[i].ans = Bool(TRUE)
AnsweredNo(call) == \E i \in ReuseQuestions(call) : call.ev[i].ans = Bool(FALSE)

\* the new-input prompt was cancelled or left empty
Cancelled(call) ==
    \E i \in NewInputPrompts(call) :
        \/ call.ev[i].op = "askopenfilename" /\ call.ev[i].ans = Str(<<>>)
        \/ call.ev[i].op = "askstring" /\ ~Truthy(call.ev[i].ans)

\* the values the user supplied: the text of a chosen document that was
\* read, or a non-empty text entered
Supplied(call) ==
    {call.ev[i].ans : i \in {j \in DOMAIN call.ev :
        \/ call.ev[j].op = "Document" /\ call.ev[j].ans # None
        \/ call.ev[j].op = "askstring" /\ Truthy(call.ev[j].ans)}}

----------------------------------------------------------------------------
C2_CachePopulation ==
    (last.fn \in ContentCalls /\ ~last.raised)
    => \A v \in Supplied(last) : get(fs, category(last.fn)) = v

(* C3: Empty-state resolution.  For every category, if get returns absent  *)
(* when the resolution starts and the user cancels or leaves empty the     *)
(* new-input prompt, the resolver returns an empty or absent value and no  *)
(* record is created in the store.                                         *)
C3_EmptyStateResolution ==
    (/\ last.fn \in ResolverCalls
     /\ Cached(last) = None
     /\ Cancelled(last))
    => /\ ~Truthy(last.ret)
       /\ Writes(last) = {}
       /\ DOMAIN last.fs = DOMAIN last.before

(* C4: Idempotence of reuse.  For each content category, if the store     *)
(* holds a value for the category and the user answers yes to the reuse    *)
(* question, the resolver returns the cached value, issues no new-input    *)
(* prompt and performs no put: the store is unchanged.                     *)
C4_IdempotenceOfReuse ==
    (/\ last.fn \in ContentCalls
     /\ Cached(last) # None
     /\ AnsweredYes(last))
    => /\ ~last.raised
       /\ last.ret = Cached(last)
       /\ NewInputPrompts(last) = {}
       /\ Writes(last) = {}
       /\ last.fs = last.before

C4_Witness ==
    /\ last.fn = "get_remarks"
    /\ Cached(last) = Str(Text(1))
    /\ AnsweredYes(last)
    /\ remarks = Str(Text(1))

(* C5: the credential follows the policy of the content categories         *)
(* (free text): a cached credential makes the resolver ask whether to      *)
(* reuse it, and a cancelled or empty answer to the text prompt falls back *)
(* to the cached credential and writes nothing.                            *)
C5_CredentialSamePolicy ==
    last.fn = "get_api_key"
    => /\ Cached(last) # None => ReuseQuestions(last) # {}
       /\ Cancelled(last) => /\ last.ret = Cached(last)
                             /\ Writes(last) = {}
                             /\ last.fs = last.before

\* a path names the record of a category
names(path, key) ==
    IF caseSensitive THEN path = pkl_path(key) ELSE samefile(path, pkl_path(key))

FileEvents(call) == Events(call, {"load", "FileNotFoundError", "dump"})

DocumentInputs ==
    UNION {[result : BOOLEAN, file_path : {p}, doc : Documents(p), text : {None}] :
           p \in FilePathAnswers}
TextInputs ==
    [result : BOOLEAN, file_path : {<<>>}, doc : {NoDocument}, text : AskStringAnswers]

Inputs(fn) == IF fn \in {"get_resume", "get_coverletter"} THEN DocumentInputs ELSE TextInputs

\* the resolver of a category run in a directory on the user's answers
resolve(fn, dir, in) ==
    CASE fn = "get_resume" -> get_resume(dir, in.result, in.file_path, in.doc)
      [] fn = "get_coverletter" -> get_coverletter(dir, in.result, in.file_path, in.doc)
      [] fn = "get_job_description" -> get_job_description(dir, in.result, in.text)
      [] fn = "get_remarks" -> get_remarks(dir, in.result, in.text)
      [] fn = "get_api_key" -> get_api_key(dir, in.text)

(* C6: Independence across categories.  Resolving a category A, whatever   *)
(* the user answers, neither reads nor writes the record of another        *)
(* category B: the value stored for B is the same before and after, and so *)
(* is what the resolver of B returns on every answer of the user.          *)
C6_Independence ==
    last.fn \in ResolverCalls
    => \A g \in ResolverCalls \ {last.fn} :
        /\ \A i \in FileEvents(last) : ~names(last.ev[i].arg, category(g))
        /\ \/ last.fs = last.before
           \/ /\ get(last.fs, category(g)) = get(last.before, category(g))
              /\ \A in \in Inputs(g) :
                    LET after == resolve(g, last.fs, in)
                        before == resolve(g, last.before, in)
                    IN after.ret = before.ret /\ after.raised = before.raised

C6_Witness ==
    /\ last.fn = "get_job_description"
    /\ Writes(last) # {}
    /\ last.fs # last.before
    /\ get(last.before, s_Additional_prompt) = Str(Text(1))
    /\ get(fs, s_Additional_prompt) = Str(Text(1))

\* the chosen document could not be read
ExtractionFailed(call) ==
    \E i \in Events(call, {"Document"}) : call.ev[i].ans = None

Steps == <<"get_api_key", "get_resume", "get_coverletter", "get_job_description",
           "get_remarks", "compose", "get_completion", "write", "showinfo">>

C7_State ==
    /\ Len(log) <= Len(Steps)
    /\ log = SubSeq(Steps, 1, Len(log))
    /\ Len(log) >= 8 => response.type = "str" /\ destination = response
    /\ last.raised => pc = "aborted"
    /\ ExtractionFailed(last) => pc = "aborted" /\ last.raised
    /\ pc = "aborted" =>
        /\ log # << >>
        /\ log[Len(log)] \in {"get_resume", "get_coverletter", "get_completion"}
        /\ last.fn = log[Len(log)]
        /\ last.raised
        /\ response = None

C7_Step ==
    /\ destination' # destination => pc = "write" /\ Len(log) = 7
    /\ pc = "aborted" => pc' = "get_api_key" /\ run' = run + 1 /\ fs' = fs

(* C7: No partial success.  The destination file is written and the        *)
(* completion is notified only after the credential and the four content   *)
(* categories are resolved and the generation call has returned a          *)
(* response; when document extraction or the generation call fails the run *)
(* stops there: no later category is resolved, no generation call follows  *)
(* a failed extraction, the destination file is not written and nothing is *)
(* notified.                                                               *)
C7_NoPartialSuccess == [](C7_State) /\ [][C7_Step]_vars

C7_Witness ==
    /\ pc = "aborted"
    /\ last.fn = "get_coverletter"
    /\ run = 2
    /\ destination = Str(<<"r">>)

Fields == {"description", "resume", "reference_coverletter", "remarks"}

Placeholders == {<<>>, <<"N", "o", "n", "e">>}

(* C8: Generation Request invariant.  When the request is composed each of *)
(* its four fields is a string; a category resolved to no value gives an   *)
(* empty or placeholder string, never an absent field, and composing does  *)
(* not fail on an absent value.                                            *)
C8_RequestFieldsAreStrings ==
    /\ Len(log) >= 6 =>
        /\ log[6] = "compose"
        /\ \A f \in Fields : prompt[f].type = "str"
        /\ description = None => prompt.description.s \in Placeholders
        /\ resume = None => prompt.resume.s \in Placeholders
        /\ reference_coverletter = None => prompt.reference_coverletter.s \in Placeholders
        /\ remarks = None => prompt.remarks.s \in Placeholders
        /\ description # None => prompt.description = description
        /\ resume # None => prompt.resume = resume
        /\ reference_coverletter # None => prompt.reference_coverletter = reference_coverletter
        /\ remarks # None => prompt.remarks = remarks
    /\ pc = "aborted" => log[Len(log)] # "compose"

C8_Witness ==
    /\ pc = "get_completion"
    /\ resume = None
    /\ remarks = None
    /\ description = Str(Text(1))
    /\ prompt.resume.s = <<"N", "o", "n", "e">>
    /\ prompt.description.s = Text(1)

(* C9: Prompting policy.  For each content category the reuse question is  *)
(* asked in a resolution exactly when get returned a cached value; when    *)
(* get returned absent the new-input prompt is issued, once; in no         *)
(* resolution is the new-input prompt issued more than once.               *)
C9_PromptingPolicy ==
    last.fn \in ContentCalls
    => /\ (ReuseQuestions(last) # {}) <=> (Cached(last) # None)
       /\ Cardinality(ReuseQuestions(last)) <= 1
       /\ Cached(last) = None => Cardinality(NewInputPrompts(last)) = 1
       /\ Cardinality(NewInputPrompts(last)) <= 1
       /\ \A i \in ReuseQuestions(last), j \in NewInputPrompts(last) : i < j

C9_Witness ==
    /\ last.fn = "get_resume"
    /\ Cached(last) = Str(<<>>)
    /\ AnsweredNo(last)
    /\ Cardinality(NewInputPrompts(last)) = 1

CredentialEvents(call) ==
    {i \in DOMAIN call.ev :
        \/ call.ev[i].op = "askstring" /\ call.ev[i].arg = s_API_key
        \/ call.ev[i].op = "dump" /\ names(call.ev[i].arg, s_API_key)}

C10_Step ==
    /\ get(fs, s_API_key) # None =>
        /\ get(fs', s_API_key) = get(fs, s_API_key)
        /\ CredentialEvents(last') = {}
        /\ pc = "get_api_key" => api_key' = get(fs, s_API_key)
    /\ CredentialEvents(last') # {} =>
        /\ pc = "get_api_key"
        /\ get(fs, s_API_key) = None

(* C10: Credential stickiness.  Once the credential record holds a value   *)
(* that is not absent, the empty string included, every later run gets     *)
(* that value from get_api_key with no prompt and no write of the record;  *)
(* the credential is asked for and written only in a run whose lookup      *)
(* returned absent.                                                        *)
C10_CredentialStickiness == [][C10_Step]_vars

C10_Witness ==
    /\ run = 2
    /\ last.fn = "get_api_key"
    /\ Cached(last) = Str(<<>>)
    /\ api_key = Str(<<>>)
    /\ last.ev = <<Event("load", s_API_key_pkl, Str(<<>>))>>

====
